---- MODULE Spec2Model ----
(***************************************************************************)
(* Model of the WebP -> PNG batch converter (src/App.tsx and               *)
(* src/components/FileUpload.tsx).                                         *)
(*                                                                         *)
(* The state is the React state of App (files, isConvertingAll,            *)
(* globalError), the position of every running handleConvertAll            *)
(* coroutine, and the release count of every URL handed to                 *)
(* URL.revokeObjectURL.  JavaScript is single threaded: the code between   *)
(* two awaits is one atomic step, so a handleConvertAll run is the step    *)
(* that starts it followed by one step per settled image load.             *)
(***************************************************************************)
EXTENDS Integers, Sequences, FiniteSets, TLC

\* Bounds of the model.
MaxIds == 2     \* Items created over a whole session
MaxSel == 2     \* files in one selection

----------------------------------------------------------------------------
\* Values

WEBP == "image/webp"

\* The user's files: a File has a name and a MIME type.  The batch
\* operations read only the type; the name is read by handleDownload alone.
FileChoices ==
  { [name |-> <<"a", ".", "w", "e", "b", "p">>, type |-> "image/webp"],
    [name |-> <<"c", ".", "p", "n", "g">>,      type |-> "image/png"] }

\* All selections of at most n files.
Selections(n) == UNION { [1..k -> FileChoices] : k \in 0..n }

\* The argument of onFileSelect: App declares a FileList, FileUpload passes
\* a single File.
AsFileList(sel) == [kind |-> "FileList", items |-> sel]
AsFile(f)       == [kind |-> "File", items |-> <<f>>]

Ids == 1..MaxIds

VARIABLES
  files,            \* useState<FileItem[]>: the batch
  isConvertingAll,  \* useState(false)
  globalError,      \* the n of `Skipped ${n} non-WebP file(s)...`, 0 for ''
  mounted,          \* FALSE once the unmount cleanup has run
  nextId,           \* next value of crypto.randomUUID / URL.createObjectURL
  runs,             \* the handleConvertAll calls that have not returned
  srcRel,           \* revokeObjectURL calls per webpUrl
  outRel,           \* revokeObjectURL calls per pngUrl
  outMade,          \* ids whose conversion produced a pngDataUrl
  usedReleased,     \* ids whose image load started on a revoked webpUrl
  lastOp            \* the last operation and its input (history)

vars == <<files, isConvertingAll, globalError, mounted, nextId, runs,
          srcRel, outRel, outMade, usedReleased, lastOp>>

\* lastOp: op names the operation; sel is the selection given to addFiles;
\* n and rej count the files, and the files not of type image/webp, supplied
\* to the upload surface; id, out, next, done and snap describe a settled
\* conversion and its run; saved is the filename offered by a download.
NoOp ==
  [op |-> "init", id |-> 0, sel |-> <<>>, n |-> 0, rej |-> 0, out |-> "",
   next |-> 0, done |-> FALSE, snap |-> {}, saved |-> <<>>]

NotWebp(sel) == Len(SelectSeq(sel, LAMBDA f : f.type # "image/webp"))

----------------------------------------------------------------------------
\* Array helpers

\* files.find(f => f.id === id) succeeds
Has(fs, id) == \E k \in 1..Len(fs) : fs[k].id = id

Find(fs, id) == fs[CHOOSE k \in 1..Len(fs) : fs[k].id = id]

IdsOf(fs) == { fs[k].id : k \in 1..Len(fs) }

\* Array.from(selectedFiles): a FileList is array-like; a File has neither
\* an iterator nor a length, so Array.from gives [].
ArrayFrom(x) == IF x.kind = "FileList" THEN x.items ELSE <<>>

----------------------------------------------------------------------------
\* Blob registry (URL.revokeObjectURL)

\* The revokes done for one item: webpUrl always, pngUrl when truthy.
RevokeSrc(rel, fs) ==
  [u \in Ids |-> rel[u] + Cardinality({k \in 1..Len(fs) : fs[k].webpUrl = u})]

\* Variant: the outputs are not released.
RevokeOut_None(rel, fs) == rel

RevokeOut(rel, fs) ==
  [u \in Ids |-> rel[u] + Cardinality({k \in 1..Len(fs) : fs[k].pngUrl = u})]

----------------------------------------------------------------------------
\* handleFileSelect

NewItem(id, file) ==
  [id |-> id, file |-> file, webpUrl |-> id, pngUrl |-> 0,
   status |-> "pending", error |-> "none"]

\* Variant: no type check.
IsWebp_Any(file) == TRUE

IsWebp(file) == file.type = WEBP

\* Variant: one id for all the Items of a selection.
newValidFiles_OneId(arr) ==
  LET v == SelectSeq(arr, IsWebp)
  IN  [k \in 1..Len(v) |-> NewItem(nextId, v[k])]

newValidFiles(arr) ==
  LET v == SelectSeq(arr, IsWebp)
  IN  [k \in 1..Len(v) |-> NewItem(nextId + k - 1, v[k])]

invalidFiles(arr) == SelectSeq(arr, LAMBDA f : ~IsWebp(f))

handleFileSelect(selectedFiles) ==
  LET arr   == ArrayFrom(selectedFiles)
      valid == newValidFiles(arr)
      bad   == invalidFiles(arr)
  IN  /\ nextId + Len(valid) - 1 <= MaxIds
      /\ files' = IF Len(valid) > 0 THEN files \o valid ELSE files
      /\ globalError' = IF Len(bad) > 0 THEN Len(bad) ELSE 0
      /\ nextId' = nextId + Len(valid)
      /\ UNCHANGED <<isConvertingAll, mounted, runs, srcRel, outRel,
                     outMade, usedReleased>>

\* addFiles(files) of the Batch Controller: handleFileSelect on a FileList.
AddFiles(sel) ==
  /\ mounted
  /\ handleFileSelect(AsFileList(sel))
  /\ lastOp' = [NoOp EXCEPT !.op = "addFiles", !.sel = sel]

\* FileUpload: the picker's change event and the drop event both forward
\* files[0], a File, to onFileSelect.
ForwardFirst(sel) ==
  IF Len(sel) > 0
    THEN handleFileSelect(AsFile(sel[1]))
    ELSE UNCHANGED <<files, isConvertingAll, globalError, mounted, nextId,
                     runs, srcRel, outRel, outMade, usedReleased>>

handleFileChange(sel) ==
  /\ mounted
  /\ ForwardFirst(sel)
  /\ lastOp' = [NoOp EXCEPT !.op = "picker", !.n = Len(sel),
                            !.rej = NotWebp(sel)]

handleDrop(sel) ==
  /\ mounted
  /\ ForwardFirst(sel)
  /\ lastOp' = [NoOp EXCEPT !.op = "drop", !.n = Len(sel),
                            !.rej = NotWebp(sel)]

----------------------------------------------------------------------------
\* handleConvertAll

SetConverting(f) == [f EXCEPT !.status = "converting"]

\* Variant: the output is stored but the status is not changed.
SetConverted_NoStatus(f, pngDataUrl) == [f EXCEPT !.pngUrl = pngDataUrl]

\* Variant: the output is not stored with the status.
SetConverted_NoUrl(f, pngDataUrl) == [f EXCEPT !.status = "converted"]

SetConverted(f, pngDataUrl) ==
  [f EXCEPT !.status = "converted", !.pngUrl = pngDataUrl]

\* Variant: the message is stored but the status is not changed.
SetError_NoStatus(f, message) == [f EXCEPT !.error = message]

SetError(f, message) == [f EXCEPT !.status = "error", !.error = message]

\* setFiles(prev => prev.map(f => f.id === item.id ? {...} : f))
MarkConverting(fs, id) ==
  [k \in 1..Len(fs) |->
     IF fs[k].id = id THEN SetConverting(fs[k]) ELSE fs[k]]

\* Variant: the map has no id test.
MarkConverted_All(fs, id, pngDataUrl) ==
  [k \in 1..Len(fs) |-> SetConverted(fs[k], pngDataUrl)]

MarkConverted(fs, id, pngDataUrl) ==
  [k \in 1..Len(fs) |->
     IF fs[k].id = id THEN SetConverted(fs[k], pngDataUrl) ELSE fs[k]]

MarkError(fs, id, message) ==
  [k \in 1..Len(fs) |->
     IF fs[k].id = id THEN SetError(fs[k], message) ELSE fs[k]]

\* What the awaited promise can do: resolve (onload with a 2d context),
\* reject from onload (no context), reject from onerror.
Outcomes == {"load", "noctx", "loaderr"}

RejectMessage(out) ==
  IF out = "noctx" THEN "Canvas context error." ELSE "Image load failed."

\* error.message || 'Conversion failed.'
ErrorMessage(message) == IF message = "" THEN "Conversion failed." ELSE message

\* Variant: the pending Items, last first.
filesToConvert_Reversed(fs) ==
  LET p == SelectSeq(fs, LAMBDA f : f.status = "pending")
  IN  [k \in 1..Len(p) |-> p[Len(p) + 1 - k]]

\* Variant: no status filter.
filesToConvert_All(fs) == fs

filesToConvert(fs) == SelectSeq(fs, LAMBDA f : f.status = "pending")

hasPendingFiles == \E k \in 1..Len(files) : files[k].status = "pending"

\* Variant: the button ignores the busy flag.
ConvertAllDisabled_NoBusy == ~hasPendingFiles

\* disabled={!hasPendingFiles || isConvertingAll}
ConvertAllDisabled == ~hasPendingFiles \/ isConvertingAll

\* disabled={isConvertingAll}
ClearAllDisabled == isConvertingAll

\* image.src = item.webpUrl
StartLoad(item) ==
  IF srcRel[item.webpUrl] > 0 THEN usedReleased \cup {item.id}
                              ELSE usedReleased

\* The call up to its first await.
handleConvertAll ==
  LET todo == filesToConvert(files)
  IN  IF Len(todo) = 0
        THEN /\ UNCHANGED <<files, isConvertingAll, runs, usedReleased>>
             /\ lastOp' = [NoOp EXCEPT !.op = "convertAll"]
        ELSE /\ isConvertingAll' = TRUE
             /\ files' = MarkConverting(files, todo[1].id)
             /\ runs' = Append(runs, [items |-> todo, i |-> 1])
             /\ usedReleased' = StartLoad(todo[1])
             /\ lastOp' = [NoOp EXCEPT !.op = "convertAll",
                                       !.next = todo[1].id,
                                       !.snap = IdsOf(todo)]

ConvertAll ==
  /\ mounted
  /\ files # <<>>
  /\ ~ConvertAllDisabled
  /\ handleConvertAll
  /\ UNCHANGED <<globalError, mounted, nextId, srcRel, outRel, outMade>>

\* convertAll() of the Batch Controller called while no Item is pending:
\* the handler takes its early return.
ConvertAllIdle ==
  /\ mounted
  /\ ~hasPendingFiles
  /\ handleConvertAll
  /\ UNCHANGED <<globalError, mounted, nextId, srcRel, outRel, outMade>>

RemoveAt(s, r) == SubSeq(s, 1, r - 1) \o SubSeq(s, r + 1, Len(s))

\* The state update that follows the awaited promise of the current item.
Settled(fs, item, out) ==
  IF out = "load"
    THEN MarkConverted(fs, item.id, item.id)
    ELSE MarkError(fs, item.id, ErrorMessage(RejectMessage(out)))

\* Variant: try/catch around the loop, a failure ends the run.
Continues_StopOnError(run, out) == out = "load" /\ run.i < Len(run.items)

\* for (const item of filesToConvert) with the try/catch inside the loop:
\* the loop goes on to the next item whatever the outcome was.
Continues(run, out) == run.i < Len(run.items)

\* Variant: the busy flag is not reset when the run returns.
BusyAfter_Stuck(more) == isConvertingAll

\* setIsConvertingAll(false) once the loop is over.
BusyAfter(more) == IF mounted /\ ~more THEN FALSE ELSE isConvertingAll

\* A run resumes after its await: it records the outcome of the current
\* item, then either marks the next item and awaits again, or returns.
\* State setters of an unmounted component do nothing.
Settle(r, out) ==
  LET run  == runs[r]
      item == run.items[run.i]
      more == Continues(run, out)
      next == run.items[run.i + 1]
      after == IF more
                 THEN MarkConverting(Settled(files, item, out), next.id)
                 ELSE Settled(files, item, out)
  IN  /\ files' = IF mounted THEN after ELSE files
      /\ isConvertingAll' = BusyAfter(more)
      /\ runs' = IF more THEN [runs EXCEPT ![r].i = run.i + 1]
                         ELSE RemoveAt(runs, r)
      /\ outMade' = IF out = "load" THEN outMade \cup {item.id} ELSE outMade
      /\ usedReleased' = IF more THEN StartLoad(next) ELSE usedReleased
      /\ lastOp' = [NoOp EXCEPT !.op = "settle", !.id = item.id, !.out = out,
                                !.next = IF more THEN next.id ELSE 0,
                                !.done = ~more,
                                !.snap = IdsOf(run.items)]
      /\ UNCHANGED <<globalError, mounted, nextId, srcRel, outRel>>

\* The image load of some run in flight reports load or error.
SettleSome == \E r \in 1..Len(runs) : \E out \in Outcomes : Settle(r, out)

----------------------------------------------------------------------------
\* handleDownload

DotWebp == <<".", "w", "e", "b", "p">>
DotPng  == <<".", "p", "n", "g">>

\* name.replace(/\.webp$/, '.png')
ReplaceWebp(name) ==
  IF Len(name) >= 5 /\ SubSeq(name, Len(name) - 4, Len(name)) = DotWebp
    THEN SubSeq(name, 1, Len(name) - 5) \o DotPng
    ELSE name

handleDownload(id) ==
  /\ mounted
  /\ lastOp' = IF ~Has(files, id) \/ Find(files, id).pngUrl = 0
                 THEN [NoOp EXCEPT !.op = "download", !.id = id]
                 ELSE [NoOp EXCEPT !.op = "download", !.id = id, !.done = TRUE,
                         !.saved = ReplaceWebp(Find(files, id).file.name)]
  /\ UNCHANGED <<files, isConvertingAll, globalError, mounted, nextId, runs,
                 srcRel, outRel, outMade, usedReleased>>

----------------------------------------------------------------------------
\* handleRemove, handleClearAll, unmount cleanup

\* Variant: the filter keeps the Item instead of the others.
Without_Inverted(fs, id) == SelectSeq(fs, LAMBDA f : f.id = id)

\* Variant: the Item is released but stays in the batch.
Without_KeepsAll(fs, id) == fs

\* prev.filter(f => f.id !== id)
Without(fs, id) == SelectSeq(fs, LAMBDA f : f.id # id)

handleRemove(id) ==
  LET found == Has(files, id)
      fileToRemove == Find(files, id)
  IN  /\ mounted
      /\ srcRel' = IF found
                     THEN [srcRel EXCEPT ![fileToRemove.webpUrl] = @ + 1]
                     ELSE srcRel
      /\ outRel' = IF found /\ fileToRemove.pngUrl # 0
                     THEN [outRel EXCEPT ![fileToRemove.pngUrl] = @ + 1]
                     ELSE outRel
      /\ files' = Without(files, id)
      /\ lastOp' = [NoOp EXCEPT !.op = "remove", !.id = id]
      /\ UNCHANGED <<isConvertingAll, globalError, mounted, nextId, runs,
                     outMade, usedReleased>>

\* setFiles([])
Cleared == <<>>

handleClearAll ==
  /\ mounted
  /\ files # <<>>
  /\ ~ClearAllDisabled
  /\ srcRel' = RevokeSrc(srcRel, files)
  /\ outRel' = RevokeOut(outRel, files)
  /\ files' = Cleared
  /\ globalError' = 0
  /\ lastOp' = [NoOp EXCEPT !.op = "clearAll"]
  /\ UNCHANGED <<isConvertingAll, mounted, nextId, runs, outMade,
                 usedReleased>>

\* The effect cleanup revokes the URLs of filesRef.current, the files of the
\* last render.
Unmount ==
  /\ mounted
  /\ mounted' = FALSE
  /\ srcRel' = RevokeSrc(srcRel, files)
  /\ outRel' = RevokeOut(outRel, files)
  /\ lastOp' = [NoOp EXCEPT !.op = "unmount"]
  /\ UNCHANGED <<files, isConvertingAll, globalError, nextId, runs, outMade,
                 usedReleased>>

----------------------------------------------------------------------------
Init ==
  /\ files = <<>>
  /\ isConvertingAll = FALSE
  /\ globalError = 0
  /\ mounted = TRUE
  /\ nextId = 1
  /\ runs = <<>>
  /\ srcRel = [u \in Ids |-> 0]
  /\ outRel = [u \in Ids |-> 0]
  /\ outMade = {}
  /\ usedReleased = {}
  /\ lastOp = NoOp

Next ==
  \/ \E sel \in Selections(MaxSel) : AddFiles(sel)
  \/ \E sel \in Selections(1) : handleFileChange(sel)
  \/ \E sel \in Selections(MaxSel) : handleDrop(sel)
  \/ ConvertAll
  \/ ConvertAllIdle
  \/ SettleSome
  \/ \E id \in Ids : handleDownload(id)
  \/ \E id \in Ids : handleRemove(id)
  \/ handleClearAll
  \/ Unmount

Spec == Init /\ [][Next]_vars

\* Every image load eventually fires onload or onerror.
SpecFair == Spec /\ WF_vars(SettleSome)

\* The batch operations over files that differ in name only: addFiles takes
\* a file by its type, whatever its name is.
NameChoices ==
  { [name |-> <<"a", ".", "w", "e", "b", "p">>, type |-> "image/webp"],
    [name |-> <<"b", ".", "W", "E", "B", "P">>, type |-> "image/webp"] }

NextNames ==
  \/ \E f \in NameChoices : AddFiles(<<f>>)
  \/ ConvertAll
  \/ SettleSome
  \/ \E id \in Ids : handleDownload(id)
  \/ \E id \in Ids : handleRemove(id)

SpecNames == Init /\ [][NextNames]_vars

----------------------------------------------------------------------------
\* Properties

Terminal(f) ==
  \/ f.status = "converted" /\ f.pngUrl # 0
  \/ f.status = "error" /\ f.error # "none"

Converting == { k \in 1..Len(files) : files[k].status = "converting" }

\* C1: every Item of the batch has an output (pngUrl) exactly when its
\* status is 'converted' and an error message exactly when its status is
\* 'error'.
C1_PayloadMatchesStatus ==
  \A k \in 1..Len(files) :
    /\ files[k].pngUrl # 0 <=> files[k].status = "converted"
    /\ files[k].error # "none" <=> files[k].status = "error"

C1_Witness ==
  /\ \E k \in 1..Len(files) : files[k].status = "converted"
  /\ \E k \in 1..Len(files) : files[k].status = "error"

\* C2: URL.revokeObjectURL is called at most once on every webpUrl and on
\* every pngUrl, over remove, clearAll and the unmount cleanup.
C2_ReleasedAtMostOnce ==
  \A u \in Ids : srcRel[u] <= 1 /\ outRel[u] <= 1

\* The cleanup ran with an Item left in the batch, after another Item and
\* its output had been released by remove or clearAll.
C2_Witness ==
  /\ lastOp.op = "unmount"
  /\ \E u \in Ids : ~Has(files, u) /\ srcRel[u] = 1 /\ outRel[u] = 1
  /\ \E v \in Ids : Has(files, v) /\ srcRel[v] = 1

\* C3: once the cleanup has run and no conversion is in flight, every
\* webpUrl created by addFiles and every output produced by a successful
\* conversion has been released.
C3_NothingLeaked ==
  (~mounted /\ runs = <<>>) =>
    \A u \in 1..(nextId - 1) :
      /\ srcRel[u] >= 1
      /\ u \in outMade => outRel[u] >= 1

\* C4: when a convertAll call returns, every Item of the batch that was
\* pending when the call started is converted with an output or error with
\* a message, and no Item of the batch is converting.
C4_AfterConvertAll ==
  (mounted /\ lastOp.op = "settle" /\ lastOp.done) =>
    /\ \A k \in 1..Len(files) :
         files[k].id \in lastOp.snap => Terminal(files[k])
    /\ Converting = {}

C4_Witness ==
  /\ mounted /\ lastOp.op = "settle" /\ lastOp.done
  /\ Cardinality(lastOp.snap) >= 2
  /\ lastOp.snap \subseteq IdsOf(files)
  /\ \E k \in 1..Len(files) : files[k].status = "converted"
  /\ \E k \in 1..Len(files) : files[k].status = "error"

\* C5: at most one Item of the batch is converting, in every state.
C5_OneConverting == Cardinality(Converting) <= 1

\* A user operation landed while a conversion was in flight.
C5_Witness ==
  /\ Cardinality(Converting) = 1
  /\ runs # <<>>
  /\ lastOp.op \in {"addFiles", "remove"}
  /\ hasPendingFiles

\* C6: while a convertAll run is in flight, for two Items A before B in the
\* batch that the run took as pending, B has left 'pending' only if A is
\* converted or error.
C6_BatchOrder ==
  \A r \in 1..Len(runs) :
    \A k, j \in 1..Len(files) :
      (/\ k < j
       /\ files[k].id \in IdsOf(runs[r].items)
       /\ files[j].id \in IdsOf(runs[r].items)
       /\ files[j].status # "pending")
      => files[k].status \in {"converted", "error"}

C6_Witness ==
  /\ Len(runs) = 1
  /\ \E k, j \in 1..Len(files) :
       /\ k < j
       /\ {files[k].id, files[j].id} \subseteq IdsOf(runs[1].items)
       /\ files[j].status = "converting"
       /\ files[k].status \in {"converted", "error"}

\* The changes one step may make to an Item that stays in the batch.
AllowedChange(a, b) ==
  \/ b = a
  \/ a.status = "pending" /\ b.status = "converting"
  \/ a.status = "converting" /\ b.status \in {"converted", "error"}

\* C7: an Item's status only moves pending -> converting -> converted or
\* error; a converted or error Item never changes again.
C7_StatusTransitions ==
  [][\A k \in 1..Len(files) : \A j \in 1..Len(files') :
       files'[j].id = files[k].id => AllowedChange(files[k], files'[j])]_vars

\* A later convertAll run is under way next to an Item that an earlier run
\* settled.
C7_Witness ==
  /\ lastOp.op = "settle"
  /\ \E k \in 1..Len(files) : files[k].status \in {"converted", "error"}
                              /\ files[k].id \notin lastOp.snap
  /\ \E k \in 1..Len(files) : files[k].id \in lastOp.snap

\* C8: when the conversion of an Item fails, that Item becomes 'error' with
\* a message, no other Item changes because of it, and the run goes on to
\* the next Item it took as pending (which becomes 'converting').
C8_FailureIsolated ==
  [][(mounted /\ lastOp'.op = "settle" /\ lastOp'.out # "load") =>
       /\ Len(files') = Len(files)
       /\ \E r \in 1..Len(runs) :
            LET run == runs[r]
                last == run.i = Len(run.items)
                nextId_ == IF last THEN 0 ELSE run.items[run.i + 1].id
            IN  /\ run.items[run.i].id = lastOp'.id
                /\ last <=> lastOp'.done
                /\ ~last => /\ Len(runs') = Len(runs)
                            /\ runs'[r].i = run.i + 1
                /\ \A k \in 1..Len(files) :
                     IF files[k].id = lastOp'.id
                       THEN /\ files'[k].status = "error"
                            /\ files'[k].error # "none"
                            /\ files'[k].pngUrl = files[k].pngUrl
                       ELSE IF files[k].id = nextId_
                         THEN files'[k] = [files[k] EXCEPT !.status = "converting"]
                         ELSE files'[k] = files[k]]_vars

\* A conversion failed, its sibling was left alone and the run went on.
C8_Witness ==
  /\ mounted /\ lastOp.op = "settle" /\ lastOp.out # "load"
  /\ lastOp.next # 0
  /\ \E k \in 1..Len(files) : files[k].id = lastOp.id /\ files[k].status = "error"
  /\ \E k \in 1..Len(files) : files[k].id = lastOp.next
                              /\ files[k].status = "converting"

\* What addFiles does to the batch: the webp files of the selection, in
\* order, become new pending Items at the end of the batch.
AddFilesBatch(sel) ==
  LET v == SelectSeq(sel, LAMBDA f : f.type = "image/webp")
  IN  /\ Len(files') = Len(files) + Len(v)
      /\ SubSeq(files', 1, Len(files)) = files
      /\ \A k \in 1..Len(v) :
           LET it == files'[Len(files) + k]
           IN  /\ it.file = v[k]
               /\ it.status = "pending"
               /\ it.pngUrl = 0
               /\ \A j \in 1..Len(files') :
                    j # Len(files) + k => files'[j].id # it.id

Rejected(sel) == Len(SelectSeq(sel, LAMBDA f : f.type # "image/webp"))

\* C9 as stated: addFiles appends one pending Item per webp file, in input
\* order, and the skipped-count grows by the number of rejected files.
C9_SkippedAccumulates ==
  [][lastOp'.op = "addFiles" =>
       /\ AddFilesBatch(lastOp'.sel)
       /\ globalError' = globalError + Rejected(lastOp'.sel)]_vars

\* C9 amended: addFiles appends one pending Item per webp file, in input
\* order, and the skipped-count of the message is the number of files this
\* call rejected.
C9_SkippedOfThisCall ==
  [][lastOp'.op = "addFiles" =>
       /\ AddFilesBatch(lastOp'.sel)
       /\ globalError' = Rejected(lastOp'.sel)]_vars

\* A selection with an accepted and a rejected file was added to a batch
\* that already had an Item.
C9_Witness ==
  /\ lastOp.op = "addFiles"
  /\ Len(lastOp.sel) = 2
  /\ globalError = 1
  /\ Len(files) >= 2
  /\ files[Len(files)].status = "pending"

\* C10: every file supplied through the picker or a drop becomes an Item
\* (type image/webp) or is counted as skipped.
C10_NoFileDropped ==
  [][lastOp'.op \in {"picker", "drop"} =>
       /\ Len(files') - Len(files) = lastOp'.n - lastOp'.rej
       /\ globalError' = lastOp'.rej]_vars

\* The Item at position k of fs is taken out, the others keep their order.
RemovedAt(fs, gs, k) ==
  /\ Len(gs) = Len(fs) - 1
  /\ \A j \in 1..Len(gs) : gs[j] = IF j < k THEN fs[j] ELSE fs[j + 1]

\* C11: remove(id) takes the Item with that id out of the batch, leaving the
\* other Items and their order unchanged, and releases its source once and,
\* only when it is converted, its output once; with no such Item it changes
\* and releases nothing.
C11_RemoveReleases ==
  [][lastOp'.op = "remove" =>
       IF Has(files, lastOp'.id)
         THEN \E k \in 1..Len(files) :
                /\ files[k].id = lastOp'.id
                /\ RemovedAt(files, files', k)
                /\ srcRel' = [srcRel EXCEPT ![files[k].webpUrl] = @ + 1]
                /\ IF files[k].status = "converted"
                     THEN outRel' = [outRel EXCEPT ![files[k].pngUrl] = @ + 1]
                     ELSE outRel' = outRel
         ELSE /\ files' = files
              /\ srcRel' = srcRel
              /\ outRel' = outRel]_vars

\* A converted Item was removed from a batch of two: two releases.
C11_Witness ==
  /\ lastOp.op = "remove"
  /\ srcRel[lastOp.id] = 1 /\ outRel[lastOp.id] = 1
  /\ Len(files) = 1

\* C12: convertAll called while no Item is pending changes no Item, no
\* registry entry and no flag, and starts no conversion.
C12_ConvertAllIdle ==
  [][(lastOp'.op = "convertAll" /\ ~hasPendingFiles) =>
       UNCHANGED <<files, isConvertingAll, globalError, mounted, nextId, runs,
                   srcRel, outRel, outMade, usedReleased>>]_vars

\* convertAll was called on a batch whose only Item is converted.
C12_Witness ==
  /\ lastOp.op = "convertAll"
  /\ lastOp.snap = {}
  /\ ~isConvertingAll
  /\ \E k \in 1..Len(files) : files[k].status = "converted"

\* C13: download(id) offers a file only when the batch has an Item with
\* that id whose status is 'converted'; it never changes the state.
C13_DownloadOnlyConverted ==
  [][lastOp'.op = "download" =>
       /\ UNCHANGED <<files, isConvertingAll, globalError, mounted, nextId,
                      runs, srcRel, outRel, outMade, usedReleased>>
       /\ lastOp'.done =>
            \E k \in 1..Len(files) : /\ files[k].id = lastOp'.id
                                    /\ files[k].status = "converted"
       /\ ~lastOp'.done => lastOp'.saved = <<>>]_vars

\* A download was refused for an Item that is in the batch, not converted.
C13_Witness ==
  /\ lastOp.op = "download"
  /\ ~lastOp.done
  /\ \E k \in 1..Len(files) : /\ files[k].id = lastOp.id
                              /\ files[k].status \in {"converting", "error"}
  /\ \E k \in 1..Len(files) : files[k].status = "converted"

\* C14: clearAll leaves the batch and the skipped-file message empty and
\* releases the source, and the output if present, of every Item that was in
\* the batch.
C14_ClearAll ==
  [][lastOp'.op = "clearAll" =>
       /\ files' = <<>>
       /\ globalError' = 0
       /\ \A k \in 1..Len(files) :
            /\ srcRel'[files[k].webpUrl] = srcRel[files[k].webpUrl] + 1
            /\ files[k].pngUrl # 0 =>
                 outRel'[files[k].pngUrl] = outRel[files[k].pngUrl] + 1]_vars

\* clearAll emptied a batch of two Items, one of them converted.
C14_Witness ==
  /\ lastOp.op = "clearAll"
  /\ files = <<>>
  /\ Cardinality({u \in Ids : srcRel[u] = 1}) >= 2
  /\ \E u \in Ids : outRel[u] = 1

\* C15: the ids of the batch are pairwise distinct and the Items stand in
\* the order in which they were added (ids are handed out in that order).
C15_DistinctInOrder ==
  \A k, j \in 1..Len(files) : k < j => files[k].id < files[j].id

\* A conversion result arrived for an Item that had been removed.
C15_Witness ==
  /\ mounted
  /\ lastOp.op = "settle"
  /\ ~Has(files, lastOp.id)
  /\ files # <<>>

\* C16: the filename a download offers ends in '.png', for every file that
\* addFiles accepted.
C16_SavedEndsInPng ==
  (lastOp.op = "download" /\ lastOp.done) =>
    /\ Len(lastOp.saved) >= Len(DotPng)
    /\ SubSeq(lastOp.saved, Len(lastOp.saved) - Len(DotPng) + 1,
              Len(lastOp.saved)) = DotPng

\* C17: while a convertAll run is in flight no step changes an Item that the
\* run did not take as pending when it started (an Item added meanwhile
\* stays pending), and when the run returns every Item it took that is in
\* the batch is converted or error.
C17_SnapshotOnly ==
  [][/\ \A r \in 1..Len(runs) : \A k \in 1..Len(files) :
          files[k].id \notin IdsOf(runs[r].items) =>
            \A j \in 1..Len(files') :
              files'[j].id = files[k].id => files'[j] = files[k]
     /\ (mounted /\ lastOp'.op = "convertAll" /\ hasPendingFiles) =>
          /\ Len(runs') = Len(runs) + 1
          /\ IdsOf(runs'[Len(runs')].items)
               = { files[k].id : k \in { i \in 1..Len(files) :
                                           files[i].status = "pending" } }
     /\ (mounted /\ lastOp'.op = "settle" /\ lastOp'.done) =>
          \A j \in 1..Len(files') :
            files'[j].id \in lastOp'.snap => Terminal(files'[j])]_vars

\* A run returned while an Item added during the run is still pending.
C17_Witness ==
  /\ mounted /\ lastOp.op = "settle" /\ lastOp.done
  /\ \E k \in 1..Len(files) : /\ files[k].id \in lastOp.snap
                              /\ Terminal(files[k])
  /\ \E k \in 1..Len(files) : /\ files[k].id \notin lastOp.snap
                              /\ files[k].status = "pending"

\* C18: every convertAll run that starts returns, and once it has returned
\* the busy flag of the mounted component is false, so that Convert All and
\* Clear All are no longer disabled by it.
C18_RunReturns ==
  (runs # <<>>) ~>
    (runs = <<>> /\ (mounted => ~isConvertingAll /\ ~ClearAllDisabled))

\* A run returned although its Item was removed while it was in flight.
C18_Witness ==
  /\ mounted /\ runs = <<>> /\ ~isConvertingAll
  /\ lastOp.op = "settle" /\ lastOp.done
  /\ ~Has(files, lastOp.id)

\* C19: no conversion is started on an Item whose webpUrl has already been
\* released by remove, clearAll or the unmount cleanup.
C19_NoUseAfterRelease == usedReleased = {}

====
